---- MODULE Spec2Model ----
(***************************************************************************)
(* Model of the document merge engine of src/app.py: DocumentMerger        *)
(* (_has_real_content, _get_last_meaningful_element,                       *)
(* _clean_empty_paragraphs_at_end, _append_document, merge_documents,      *)
(* _add_cover_page, _add_table_of_contents).                               *)
(*                                                                         *)
(* A document body is the ordered sequence of the children of w:body as    *)
(* the document library exposes it: paragraphs (w:p), tables (w:tbl), the  *)
(* body-level section properties (w:sectPr) and non-element nodes (an XML  *)
(* comment).  doc.paragraphs / doc.tables are the w:p / w:tbl children in  *)
(* body order.  doc.add_paragraph() (and add_heading, add_page_break,      *)
(* which are built on it) inserts the new w:p before the first w:sectPr    *)
(* child of the body and appends only when the body has none, while        *)
(* body.append(element) always puts the element last.                      *)
(***************************************************************************)
EXTENDS Integers, Sequences, FiniteSets, TLC

VARIABLES documents, options, pc, master, stats, idx, progress, output,
          lastOp, loadSkipped, appendSwallowed, docInfo

vars == <<documents, options, pc, master, stats, idx, progress, output,
          lastOp, loadSkipped, appendSwallowed, docInfo>>

\* Largest number of input documents of one merge_documents call.
MaxDocs == 3

-----------------------------------------------------------------------------
(* Elements.  text: the element has non-whitespace text; brk: a run holds  *)
(* <w:br w:type="page"/>; fmt: a run has bold, italic or underline set;    *)
(* runs: the paragraph has at least one run.  role, doc and pos record     *)
(* where the element comes from (doc = 0: inserted by the merger; pos of   *)
(* an inserted element: the number written into it); name: the display     *)
(* name written into a header or a table-of-contents entry (0: none).      *)

El(tag, text, brk, fmt, runs, role, doc, pos) ==
    [tag |-> tag, text |-> text, brk |-> brk, fmt |-> fmt, runs |-> runs,
     role |-> role, doc |-> doc, pos |-> pos, name |-> 0]

TextPara   == El("p", TRUE, FALSE, FALSE, TRUE, "body", 0, 0)
BlankPara  == El("p", FALSE, FALSE, FALSE, FALSE, "body", 0, 0)
EmptyRuns  == El("p", FALSE, FALSE, FALSE, TRUE, "body", 0, 0)
FmtPara    == El("p", FALSE, FALSE, TRUE, TRUE, "body", 0, 0)
BreakPara  == El("p", FALSE, TRUE, FALSE, TRUE, "body", 0, 0)
Table      == El("tbl", FALSE, FALSE, FALSE, FALSE, "body", 0, 0)
SectPr     == El("sectPr", FALSE, FALSE, FALSE, FALSE, "body", 0, 0)
Comment    == El("comment", FALSE, FALSE, FALSE, FALSE, "body", 0, 0)

\* A paragraph the merger writes itself: one run with the given text.
Inserted(role, n) == El("p", TRUE, FALSE, FALSE, TRUE, role, 0, n)

\* doc.add_page_break(): a paragraph whose only run holds a page break.
PageBreak(role, n) == El("p", FALSE, TRUE, FALSE, TRUE, role, 0, n)

\* doc.add_paragraph() without text: a paragraph with no run.
EmptyInserted(role) == El("p", FALSE, FALSE, FALSE, FALSE, role, 0, 0)

\* The bodies the input documents are drawn from.
Shapes ==
    { <<TextPara, BlankPara, SectPr>>,
      <<TextPara, SectPr>>,
      <<EmptyRuns, SectPr>>,
      <<SectPr>>,
      <<BreakPara, Table, SectPr>>,
      <<TextPara, BreakPara, SectPr>>,
      <<BlankPara, TextPara, BlankPara, Table, BlankPara>>,
      <<TextPara, FmtPara, BlankPara, BlankPara, SectPr>>,
      <<TextPara, Comment, SectPr>> }

Stamp(shape, d) ==
    [i \in 1..Len(shape) |-> [shape[i] EXCEPT !.doc = d, !.pos = i]]

\* An input DocumentInfo: valid = FALSE when Document(source) raises.  The
\* display name of the d-th document is written d.
DocInfo(valid, shape, d) ==
    [name |-> d, valid |-> valid, body |-> Stamp(shape, d)]

DocChoices == {[valid |-> TRUE, shape |-> s] : s \in Shapes}
                 \cup {[valid |-> FALSE, shape |-> <<>>]}

-----------------------------------------------------------------------------
(* Helpers over bodies.                                                    *)

IsPara(e)  == e.tag = "p"
IsTable(e) == e.tag = "tbl"

\* doc.paragraphs / doc.tables as index sets of the body.
ParaIdx(body)  == {i \in 1..Len(body) : IsPara(body[i])}
TableIdx(body) == {i \in 1..Len(body) : IsTable(body[i])}

Max(S) == CHOOSE x \in S : \A y \in S : y <= x
Min(S) == CHOOSE x \in S : \A y \in S : x <= y

RemoveAt(body, i) ==
    [j \in 1..(Len(body) - 1) |-> IF j < i THEN body[j] ELSE body[j + 1]]

InsertAt(body, i, e) ==
    [j \in 1..(Len(body) + 1) |->
        IF j < i THEN body[j] ELSE IF j = i THEN e ELSE body[j - 1]]

\* doc.add_paragraph(): before the first w:sectPr, else at the end.
AddParagraph(body, e) ==
    LET sects == {i \in 1..Len(body) : body[i].tag = "sectPr"}
    IN  IF sects = {} THEN Append(body, e) ELSE InsertAt(body, Min(sects), e)

\* Content-bearing: a paragraph with non-whitespace text, or a table.
ContentBearing(e) == (IsPara(e) /\ e.text) \/ IsTable(e)

-----------------------------------------------------------------------------
(* Content classifier.                                                     *)

\* _has_real_content(doc)
HasRealContent(body) ==
    IF ParaIdx(body) = {} /\ TableIdx(body) = {} THEN FALSE
    ELSE IF \E i \in ParaIdx(body) : body[i].text THEN TRUE
    ELSE TableIdx(body) # {}

\* element.tag.endswith(...) on a node that is not an element (an XML
\* comment, whose tag is not a string) raises.
TagTestRaises(e) == e.tag = "comment"

\* The elements on which the reversed scan of _get_last_meaningful_element
\* returns: a paragraph with non-whitespace text, or a table.
Meaningful(e) == (IsPara(e) /\ e.text) \/ IsTable(e)

\* _get_last_meaningful_element(doc): index of the element returned, 0 for
\* None.
GetLastMeaningfulElement(body) ==
    LET hits == {i \in 1..Len(body) : Meaningful(body[i])}
    IN  IF hits = {} THEN 0 ELSE Max(hits)

\* The reversed scan tests the tag of every element after the one it
\* returns on (of every element when it returns None).
GetLastMeaningfulRaises(body) ==
    \E i \in (GetLastMeaningfulElement(body) + 1)..Len(body) :
        TagTestRaises(body[i])

-----------------------------------------------------------------------------
(* Blank-paragraph trimmer.                                                *)

\* The loop over last_para.runs without the test of line 254.
HasSpecialFormattingBreakOnly(p) == p.runs /\ p.brk

\* has_special_formatting of the loop over last_para.runs.
HasSpecialFormatting(p) == p.runs /\ (p.brk \/ p.fmt)

\* all_empty: no run has text that survives strip().
AllRunsEmpty(p) == ~p.text

\* _clean_empty_paragraphs_at_end(doc): the while loop, one iteration per
\* recursion, on doc.paragraphs[-1].
RECURSIVE CleanEmptyParagraphsAtEnd(_)
CleanEmptyParagraphsAtEnd(body) ==
    IF ParaIdx(body) = {} THEN body
    ELSE LET last == Max(ParaIdx(body))
             last_para == body[last]
         IN  IF ~last_para.text /\ ~HasSpecialFormatting(last_para)
                  /\ ~last_para.runs
             THEN CleanEmptyParagraphsAtEnd(RemoveAt(body, last))
             ELSE IF ~last_para.text /\ ~HasSpecialFormatting(last_para)
             THEN IF AllRunsEmpty(last_para)
                  THEN CleanEmptyParagraphsAtEnd(RemoveAt(body, last))
                  ELSE body
             ELSE body

-----------------------------------------------------------------------------
(* _append_document.                                                       *)

\* has_existing_break: a run of master.paragraphs[-1] holds a page break.
HasExistingBreak(body) ==
    LET last_para == body[Max(ParaIdx(body))]
    IN  last_para.runs /\ last_para.brk

\* Lines 310-331: the page break before a document.
AddBoundaryBreak(body, doc_number) ==
    IF GetLastMeaningfulElement(body) # 0
    THEN IF ParaIdx(body) # {}
         THEN IF ~HasExistingBreak(body)
              THEN AddParagraph(body, PageBreak("page_break", doc_number))
              ELSE body
         ELSE AddParagraph(body, PageBreak("page_break", doc_number))
    ELSE body

\* Lines 333-339: the numbered header "Documento {doc_number}: {name}".
AddHeader(body, doc_number, name) ==
    AddParagraph(body, [Inserted("header", doc_number) EXCEPT !.name = name])

\* Lines 341-347: the separator rule.
AddSeparator(body, doc_number) ==
    AddParagraph(body, Inserted("separator", doc_number))

\* Lines 353-363: index of the first table or paragraph with text, the
\* first index when there is none.
StartIdx(source) ==
    LET hits == {i \in 1..Len(source) : Meaningful(source[i])}
    IN  IF hits = {} THEN 1 ELSE Min(hits)

\* The scan for start_idx tests the tag of every element up to the one it
\* breaks on.
StartIdxRaises(source) ==
    LET hits == {i \in 1..Len(source) : Meaningful(source[i])}
        stop == IF hits = {} THEN Len(source) ELSE Min(hits)
    IN  \E i \in 1..stop : TagTestRaises(source[i])

\* Line 381 without the test that keeps the last element of the source.
OmittedAlsoLast(source, i) ==
    /\ IsPara(source[i])
    /\ ~source[i].text
    /\ ~source[i].brk

\* Line 381: the paragraph is left out.
Omitted(source, i) ==
    /\ IsPara(source[i])
    /\ ~source[i].text
    /\ ~source[i].brk
    /\ i # Len(source)

\* Lines 367-384: elements_to_add, as the indices kept.
ElementsToAdd(source) ==
    {i \in StartIdx(source)..Len(source) : ~Omitted(source, i)}

ElementsToAddRaises(source) ==
    \E i \in StartIdx(source)..Len(source) : TagTestRaises(source[i])

\* The subsequence of body at the indices of keep, in body order.
RECURSIVE Select(_, _, _)
Select(body, keep, i) ==
    IF i > Len(body) THEN <<>>
    ELSE IF i \in keep THEN <<body[i]>> \o Select(body, keep, i + 1)
    ELSE Select(body, keep, i + 1)

\* Lines 386-388: the copies appended to the master, in source order.
CopiedElements(source) == Select(source, ElementsToAdd(source), 1)

\* Line 394 and line 395.
NonBlankParagraphs(source) ==
    Cardinality({i \in ParaIdx(source) : source[i].text})
TableCount(source) == Cardinality(TableIdx(source))

\* _append_document(master, source, doc_number, options).  The result is
\* the master as the call leaves it (the master is changed in place, so
\* what was done before an exception stays done), whether it raised,
\* whether it returned at line 298, and the two statistics increments.
AppendResult(m, raised, skipped, paras, tables) ==
    [master |-> m, raised |-> raised, skipped |-> skipped,
     paragraphs |-> paras, tables |-> tables]

AppendDocument(m0, source, doc_number, name, opts) ==
    IF ~HasRealContent(source) THEN AppendResult(m0, FALSE, TRUE, 0, 0)
    ELSE
    LET m1 == CleanEmptyParagraphsAtEnd(m0)
        master_has_content == HasRealContent(m1)
        wantBreak == opts.add_page_break /\ master_has_content
    IN  IF wantBreak /\ GetLastMeaningfulRaises(m1)
        THEN AppendResult(m1, TRUE, FALSE, 0, 0)
        ELSE
        LET m2 == IF wantBreak THEN AddBoundaryBreak(m1, doc_number) ELSE m1
            m3 == IF opts.number_documents
                  THEN AddHeader(m2, doc_number, name) ELSE m2
            m4 == IF opts.add_separator
                  THEN AddSeparator(m3, doc_number) ELSE m3
        IN  IF StartIdxRaises(source) \/ ElementsToAddRaises(source)
            THEN AppendResult(m4, TRUE, FALSE, 0, 0)
            ELSE
            LET m5 == m4 \o CopiedElements(source)
                m6 == CleanEmptyParagraphsAtEnd(m5)
            IN  AppendResult(m6, FALSE, FALSE, NonBlankParagraphs(source),
                             TableCount(source))

-----------------------------------------------------------------------------
(* Cover page and table of contents.                                       *)

\* _add_cover_page(doc, options)
AddCoverPage(body, opts) ==
    LET b1 == IF ParaIdx(body) # {}
              THEN InsertAt(body, Min(ParaIdx(body)),
                            EmptyInserted("cover_blank"))
              ELSE body
        b2 == AddParagraph(b1, Inserted("cover_title", 0))
        b3 == AddParagraph(b2, Inserted("cover_subtitle", 0))
        b4 == IF opts.cover_info
              THEN AddParagraph(b3, Inserted("cover_info", 0)) ELSE b3
    IN  IF HasRealContent(b4)
        THEN AddParagraph(b4, PageBreak("cover_break", 0)) ELSE b4

\* Lines 530-531: one numbered paragraph per input document.
RECURSIVE AddEntries(_, _, _)
AddEntries(body, n, docs) ==
    IF n > Len(docs) THEN body
    ELSE AddEntries(
           AddParagraph(body, [Inserted("toc_entry", n)
                                 EXCEPT !.name = docs[n].name]),
           n + 1, docs)

\* _add_table_of_contents(doc, documents)
AddTableOfContents(body, docs) ==
    LET b1 == CleanEmptyParagraphsAtEnd(body)
        b2 == IF HasRealContent(b1)
              THEN AddParagraph(b1, PageBreak("toc_break", 0)) ELSE b1
        b3 == AddParagraph(b2, Inserted("toc_heading", 0))
        b4 == AddParagraph(b3, EmptyInserted("toc_space"))
        b5 == AddEntries(b4, 1, docs)
    IN  AddParagraph(b5, PageBreak("toc_end_break", 0))

-----------------------------------------------------------------------------
(* DocumentInfo.                                                           *)

\* Largest paragraph count of an analysed document.
MaxParagraphs == 120

\* What one call of analyze() finds when it opens the source: the counts,
\* and whether opening raises ("open", lines 159-164) or the counting of
\* images raises after the first two counts were stored ("count", 170).
SourceFiles ==
    [paragraphs : 0..MaxParagraphs, tables : 0..1, images : 0..1,
     fails : {"no", "open", "count"}]

\* DocumentInfo.__init__; raised records an exception that left analyze().
NewDocumentInfo ==
    [paragraphs |-> 0, tables |-> 0, images |-> 0, pages_estimate |-> 0,
     is_valid |-> TRUE, error_message |-> "None", analyzed |-> FALSE,
     raised |-> FALSE]

\* Line 173 without the lower bound of one page.
PagesEstimateNoFloor(paragraphs) == paragraphs \div 50

\* Line 173: max(1, self.paragraphs // 50)
PagesEstimate(paragraphs) ==
    IF paragraphs \div 50 > 1 THEN paragraphs \div 50 ELSE 1

\* Lines 178-182: the except clause.
AnalyzeFailed(info) ==
    [info EXCEPT !.is_valid = FALSE, !.error_message = "error",
                 !.analyzed = TRUE]

\* DocumentInfo.analyze()
AnalyzeDocument(info, src) ==
    IF info.analyzed THEN info
    ELSE IF src.fails = "open" THEN AnalyzeFailed(info)
    ELSE IF src.fails = "count"
    THEN AnalyzeFailed([info EXCEPT !.paragraphs = src.paragraphs,
                                    !.tables = src.tables])
    ELSE [info EXCEPT !.paragraphs = src.paragraphs,
                      !.tables = src.tables,
                      !.images = src.images,
                      !.pages_estimate = PagesEstimate(src.paragraphs),
                      !.is_valid = TRUE,
                      !.analyzed = TRUE]

-----------------------------------------------------------------------------
(* merge_documents, one action per stage of the call.                      *)

OptionSets ==
    {o \in [add_page_break : BOOLEAN, number_documents : BOOLEAN,
            add_separator : BOOLEAN, add_cover_page : BOOLEAN,
            cover_info : BOOLEAN, add_table_of_contents : BOOLEAN,
            stop_on_error : BOOLEAN] :
        o.cover_info => o.add_cover_page}

DocumentLists ==
    UNION {[1..n -> DocChoices] : n \in 0..MaxDocs}

\* DocumentMerger.__init__: self.stats
InitStats == [total_docs |-> 0, total_paragraphs |-> 0, total_tables |-> 0]

\* self._update_progress(current, total, message); processed records how
\* many documents of the list have been dealt with when the call is made.
Report(current, total, processed) ==
    [current |-> current, total |-> total, processed |-> processed]

Init ==
    /\ \E c \in DocumentLists :
         documents = [d \in 1..Len(c) |-> DocInfo(c[d].valid, c[d].shape, d)]
    /\ options \in OptionSets
    /\ pc = "start"
    /\ master = <<>>
    /\ stats = InitStats
    /\ idx = 1
    /\ progress = <<>>
    /\ output = <<>>
    /\ lastOp = "none"
    /\ loadSkipped = {}
    /\ appendSwallowed = {}
    /\ docInfo = NewDocumentInfo

\* Lines 412-421: the empty-list check, total_docs, the first report.
MergeStart ==
    /\ pc = "start"
    /\ IF documents = <<>>
       THEN /\ pc' = "raised"
            /\ UNCHANGED <<stats, progress>>
       ELSE /\ pc' = "load_base"
            /\ stats' = [stats EXCEPT !.total_docs = Len(documents)]
            /\ progress' = Append(progress, Report(0, Len(documents), 0))
    /\ UNCHANGED <<docInfo, documents, options, master, idx, output, lastOp,
                   loadSkipped, appendSwallowed>>

\* Lines 423-429: the first document becomes the master; a failure to open
\* it reaches the outer handler of lines 478-481, which re-raises.
LoadBase ==
    /\ pc = "load_base"
    /\ IF documents[1].valid
       THEN /\ master' = documents[1].body
            /\ pc' = "cover"
            /\ lastOp' = "load_base"
       ELSE /\ pc' = "raised"
            /\ UNCHANGED <<master, lastOp>>
    /\ UNCHANGED <<docInfo, documents, options, stats, idx, progress, output,
                   loadSkipped, appendSwallowed>>

\* Lines 431-433.
CoverPage ==
    /\ pc = "cover"
    /\ IF options.add_cover_page
       THEN /\ master' = AddCoverPage(master, options)
            /\ lastOp' = "cover"
       ELSE UNCHANGED <<master, lastOp>>
    /\ idx' = 2
    /\ pc' = IF Len(documents) >= 2 THEN "loop" ELSE "toc"
    /\ UNCHANGED <<docInfo, documents, options, stats, progress, output, loadSkipped,
                   appendSwallowed>>

\* Line 438 reporting the document the loop is about to process.
ReportedIndexOfCurrent(i) == i

\* Line 438: the index reported when the loop reaches document i.
ReportedIndex(i) == i - 1

\* Lines 436-459: one iteration of the loop over documents[1:].
ProcessDocument ==
    /\ pc = "loop"
    /\ idx <= Len(documents)
    /\ progress' = Append(progress,
                          Report(ReportedIndex(idx), Len(documents),
                                 idx - 1))
    /\ LET doc_info == documents[idx]
           next == IF idx + 1 > Len(documents) THEN "toc" ELSE "loop"
       IN  IF ~doc_info.valid
           THEN \* Document(doc_info.source) raises
                /\ UNCHANGED <<master, stats, lastOp, appendSwallowed>>
                /\ IF options.stop_on_error
                   THEN pc' = "raised" /\ UNCHANGED loadSkipped
                   ELSE pc' = next /\ loadSkipped' = loadSkipped \cup {idx}
           ELSE LET r == AppendDocument(master, doc_info.body, idx,
                                        doc_info.name, options)
                IN  /\ master' = r.master
                    /\ lastOp' = IF r.skipped THEN "append_skip"
                                 ELSE "append"
                    /\ stats' = [stats EXCEPT
                         !.total_paragraphs = @ + r.paragraphs,
                         !.total_tables = @ + r.tables]
                    /\ UNCHANGED loadSkipped
                    /\ IF r.raised
                       THEN IF options.stop_on_error
                            THEN pc' = "raised" /\ UNCHANGED appendSwallowed
                            ELSE /\ pc' = next
                                 /\ appendSwallowed' =
                                      appendSwallowed \cup {idx}
                       ELSE pc' = next /\ UNCHANGED appendSwallowed
    /\ idx' = idx + 1
    /\ UNCHANGED <<docInfo, documents, options, output>>

\* Lines 461-463.
TableOfContents ==
    /\ pc = "toc"
    /\ IF options.add_table_of_contents
       THEN /\ master' = AddTableOfContents(master, documents)
            /\ lastOp' = "toc"
       ELSE UNCHANGED <<master, lastOp>>
    /\ pc' = "save"
    /\ UNCHANGED <<docInfo, documents, options, stats, idx, progress, output,
                   loadSkipped, appendSwallowed>>

\* Lines 465-476: the last report, the byte stream, the return.
Save ==
    /\ pc = "save"
    /\ progress' = Append(progress,
                          Report(Len(documents), Len(documents),
                                 Len(documents)))
    /\ output' = master
    /\ pc' = "done"
    /\ UNCHANGED <<docInfo, documents, options, master, stats, idx, lastOp,
                   loadSkipped, appendSwallowed>>

Next ==
    \/ MergeStart
    \/ LoadBase
    \/ CoverPage
    \/ ProcessDocument
    \/ TableOfContents
    \/ Save

Spec == Init /\ [][Next]_vars

TypeOK ==
    /\ pc \in {"start", "load_base", "cover", "loop", "toc", "save", "done",
               "raised", "analyze", "unit", "unit_done"}
    /\ idx \in 1..(MaxDocs + 1)
    /\ Len(documents) <= MaxDocs

\* Every option off.
NoOptions ==
    [add_page_break |-> FALSE, number_documents |-> FALSE,
     add_separator |-> FALSE, add_cover_page |-> FALSE,
     cover_info |-> FALSE, add_table_of_contents |-> FALSE,
     stop_on_error |-> FALSE]

\* merge_documents over the lists that differ in what happens to each
\* document (merged, skipped as contentless, failing in the append, failing
\* to load), with and without stop_on_error.
ProgressChoices ==
    {[valid |-> TRUE, shape |-> <<TextPara, SectPr>>],
     [valid |-> TRUE, shape |-> <<SectPr>>],
     [valid |-> TRUE, shape |-> <<TextPara, Comment, SectPr>>],
     [valid |-> FALSE, shape |-> <<>>]}

InitProgress ==
    /\ \E c \in UNION {[1..n -> ProgressChoices] : n \in 0..MaxDocs} :
         documents = [d \in 1..Len(c) |-> DocInfo(c[d].valid, c[d].shape, d)]
    /\ \E b \in BOOLEAN : options = [NoOptions EXCEPT !.stop_on_error = b]
    /\ pc = "start"
    /\ master = <<>>
    /\ stats = InitStats
    /\ idx = 1
    /\ progress = <<>>
    /\ output = <<>>
    /\ lastOp = "none"
    /\ loadSkipped = {}
    /\ appendSwallowed = {}
    /\ docInfo = NewDocumentInfo

SpecProgress == InitProgress /\ [][Next]_vars

-----------------------------------------------------------------------------
(* One descriptor and its analyze() calls.                                 *)

\* The merger's variables while no merge is running.
MergerIdle ==
    /\ documents = <<>>
    /\ options = NoOptions
    /\ master = <<>>
    /\ stats = InitStats
    /\ idx = 1
    /\ progress = <<>>
    /\ output = <<>>
    /\ lastOp = "none"
    /\ loadSkipped = {}
    /\ appendSwallowed = {}

InitAnalyze ==
    /\ MergerIdle
    /\ pc = "analyze"
    /\ docInfo = NewDocumentInfo

\* One call of doc_info.analyze() (lines 696, 716); what the source holds
\* when it is opened is the input of the call.
Analyze ==
    /\ pc = "analyze"
    /\ \E src \in SourceFiles : docInfo' = AnalyzeDocument(docInfo, src)
    /\ UNCHANGED <<documents, options, pc, master, stats, idx, progress,
                   output, lastOp, loadSkipped, appendSwallowed>>

NextAnalyze == Analyze

SpecAnalyze == InitAnalyze /\ [][NextAnalyze]_vars

-----------------------------------------------------------------------------
(* The trimmer and the splice window applied to one document.              *)

\* Largest number of body elements of the document.
MaxLen == 4

UnitAtoms ==
    {TextPara, BlankPara, EmptyRuns, FmtPara, BreakPara, Table, SectPr,
     Comment}

UnitBodies == UNION {[1..n -> UnitAtoms] : n \in 0..MaxLen}

InitUnits ==
    /\ \E shape \in UnitBodies : documents = <<DocInfo(TRUE, shape, 1)>>
    /\ options = NoOptions
    /\ pc = "unit"
    /\ master = <<>>
    /\ stats = InitStats
    /\ idx = 1
    /\ progress = <<>>
    /\ output = <<>>
    /\ lastOp = "none"
    /\ loadSkipped = {}
    /\ appendSwallowed = {}
    /\ docInfo = NewDocumentInfo

\* _clean_empty_paragraphs_at_end(doc) on the document.
TrimDocument ==
    /\ pc = "unit"
    /\ output' = CleanEmptyParagraphsAtEnd(documents[1].body)
    /\ lastOp' = "trim"
    /\ pc' = "unit_done"
    /\ UNCHANGED <<docInfo, documents, options, master, stats, idx,
                   progress, loadSkipped, appendSwallowed>>

\* Lines 349-388 of _append_document on the document as the source: reached
\* when the source has real content (line 296), completed when no tag test
\* raises.
CopyElements ==
    /\ pc = "unit"
    /\ HasRealContent(documents[1].body)
    /\ ~StartIdxRaises(documents[1].body)
    /\ ~ElementsToAddRaises(documents[1].body)
    /\ output' = CopiedElements(documents[1].body)
    /\ lastOp' = "copy"
    /\ pc' = "unit_done"
    /\ UNCHANGED <<docInfo, documents, options, master, stats, idx,
                   progress, loadSkipped, appendSwallowed>>

NextUnits == TrimDocument \/ CopyElements

SpecUnits == InitUnits /\ [][NextUnits]_vars

-----------------------------------------------------------------------------
(* Vocabulary of the properties.                                           *)

N == Len(documents)

\* Elements that came from an input document (not written by the merger).
FromSource(e) == e.role = "body"

\* Content-bearing elements that came from an input document.
BodyContent(e) == FromSource(e) /\ ContentBearing(e)

\* Where each content-bearing source element of a body came from, in body
\* order.
Origins(body) ==
    LET kept == Select(body, {i \in 1..Len(body) : BodyContent(body[i])}, 1)
    IN  [i \in 1..Len(kept) |-> <<kept[i].doc, kept[i].pos>>]

\* The content-bearing elements of documents d..n, in input order.
RECURSIVE InputContent(_, _)
InputContent(docs, d) ==
    IF d > Len(docs) THEN <<>>
    ELSE Origins(docs[d].body) \o InputContent(docs, d + 1)

AllLoad == \A d \in 1..N : documents[d].valid

\* Document d has real content.
RealContent(d) == documents[d].valid /\ HasRealContent(documents[d].body)

\* Document d is in the output: the base document, or a later one that
\* was appended.
Merged(d) ==
    /\ documents[d].valid
    /\ d \notin appendSwallowed
    /\ d = 1 \/ HasRealContent(documents[d].body)

RECURSIVE SumOver(_, _)
SumOver(f(_), S) ==
    IF S = {} THEN 0
    ELSE LET x == CHOOSE y \in S : TRUE IN f(x) + SumOver(f, S \ {x})

\* The paragraphs and tables of a body, without section properties and
\* non-element nodes.
Blocks(body) ==
    Select(body, {i \in 1..Len(body) : IsPara(body[i]) \/ IsTable(body[i])}, 1)

PageBreakOnly(e) == IsPara(e) /\ e.brk /\ ~e.text
EmptyParagraph(e) == IsPara(e) /\ ~e.text /\ ~e.brk /\ ~e.fmt

-----------------------------------------------------------------------------
(* C1 .. C10                                                               *)

\* C1: when every input document loads, the content-bearing source
\* elements of the returned document are exactly those of D1..DN, in input
\* order and in source order: none lost, duplicated or reordered.
C1_ContentPreserved ==
    (pc = "done" /\ AllLoad) => Origins(output) = InputContent(documents, 1)

\* C2: with add_page_break (no cover, no table of contents) and every
\* document loading, each of the C-1 boundaries between consecutive
\* documents with real content is a page-break boundary, and no inserted
\* page break lacks content-bearing elements before it or after it.
ContentIdx(body) == {i \in 1..Len(body) : BodyContent(body[i])}

DocBoundaries(body) ==
    {b \in ContentIdx(body) \X ContentIdx(body) :
        /\ b[1] < b[2]
        /\ body[b[1]].doc # body[b[2]].doc
        /\ \A k \in (b[1] + 1)..(b[2] - 1) : k \notin ContentIdx(body)}

PageBreakBoundaries(body) ==
    {b \in DocBoundaries(body) :
        \E k \in (b[1] + 1)..(b[2] - 1) : PageBreakOnly(body[k])}

InsertedBreaks(body) ==
    {i \in 1..Len(body) : body[i].role = "page_break"}

C2_PageBreakBoundaries ==
    ( /\ pc = "done"
      /\ AllLoad
      /\ appendSwallowed = {}
      /\ options.add_page_break
      /\ ~options.add_cover_page
      /\ ~options.add_table_of_contents
      /\ \E d \in 1..N : RealContent(d) )
    => /\ Cardinality(PageBreakBoundaries(output))
            = Cardinality({d \in 1..N : RealContent(d)}) - 1
       /\ \A i \in InsertedBreaks(output) :
            /\ \E j \in ContentIdx(output) : j < i
            /\ \E j \in ContentIdx(output) : j > i

\* C3: after a successful merge, total_paragraphs and total_tables are the
\* sums over every merged document, the base document included, of its
\* non-blank paragraphs and of its tables.
ParagraphsOf(d) == NonBlankParagraphs(documents[d].body)
TablesOf(d) == TableCount(documents[d].body)

C3_StatsCountEveryDocument ==
    pc = "done" =>
        /\ stats.total_paragraphs
             = SumOver(ParagraphsOf, {d \in 1..N : Merged(d)})
        /\ stats.total_tables
             = SumOver(TablesOf, {d \in 1..N : Merged(d)})

\* C4: without stop_on_error a document that fails to load, at any
\* position, never makes the call fail; with stop_on_error it never lets
\* the call return.
C4_LoadFailureSkippedOrAborts ==
    /\ (~options.stop_on_error /\ ~AllLoad) => pc # "raised"
    /\ (options.stop_on_error /\ ~AllLoad) => pc # "done"

\* C5: a failure raised inside _append_document is never swallowed by the
\* skip-and-continue path, so no byte stream is built from a master that a
\* failed append left behind.
C5_AppendFailurePropagates ==
    appendSwallowed = {}

\* C6: after every operation on the master, its paragraphs and tables do
\* not end in more than one empty paragraph, do not end in a page-break-only
\* paragraph, and do not begin with a page-break-only paragraph that no
\* content follows.
MasterTidy(body) ==
    LET b == Blocks(body)
        n == Len(b)
    IN  /\ n >= 2 => ~(EmptyParagraph(b[n]) /\ EmptyParagraph(b[n - 1]))
        /\ n >= 1 => ~PageBreakOnly(b[n])
        /\ n >= 1 => ~(PageBreakOnly(b[1])
                        /\ \A j \in 2..n : ~ContentBearing(b[j]))

C6_MasterStaysTidy ==
    /\ lastOp # "none" => MasterTidy(master)
    /\ pc = "done" => MasterTidy(output)

\* C7: after _add_cover_page on a document with real body content, every
\* cover paragraph precedes every element the document had before, and
\* exactly one page break lies between the last cover paragraph and the
\* first body element.
CoverIdx(body) ==
    {i \in 1..Len(body) :
        body[i].role \in {"cover_title", "cover_subtitle", "cover_info"}}

SourceIdx(body) ==
    {i \in 1..Len(body) :
        FromSource(body[i]) /\ (IsPara(body[i]) \/ IsTable(body[i]))}

C7_CoverPrecedesBody ==
    ( /\ lastOp = "cover"
      /\ HasRealContent(documents[1].body) )
    => /\ \A c \in CoverIdx(master) : \A b \in SourceIdx(master) : c < b
       /\ Cardinality({k \in 1..Len(master) :
                          /\ PageBreakOnly(master[k])
                          /\ k > Max(CoverIdx(master))
                          /\ k < Min(SourceIdx(master))}) = 1

\* C8: after _add_cover_page on a document with no real content of its
\* own, no page break has been appended after the cover.
C8_NoBreakAfterLoneCover ==
    ( /\ lastOp = "cover"
      /\ ~HasRealContent(documents[1].body) )
    => \A i \in 1..Len(master) : master[i].role # "cover_break"

\* C9: with add_table_of_contents the text-bearing elements of the output
\* end with the heading followed by exactly N numbered paragraphs, the
\* i-th numbered i and naming the i-th input document, and every
\* content-bearing element of the documents precedes the heading.
Textual(body) ==
    Select(body, {i \in 1..Len(body) : ContentBearing(body[i])}, 1)

C9_TableOfContentsLast ==
    (pc = "done" /\ options.add_table_of_contents) =>
        LET t == Textual(output)
            n == Len(t)
        IN  /\ n >= N + 1
            /\ t[n - N].role = "toc_heading"
            /\ \A i \in 1..N :
                 /\ t[n - N + i].role = "toc_entry"
                 /\ t[n - N + i].pos = i
                 /\ t[n - N + i].name = documents[i].name
            /\ Cardinality({i \in 1..Len(output) :
                              output[i].role = "toc_entry"}) = N

\* C10: with number_documents every merged document with real content,
\* the first included, has just before its first element a header carrying
\* its position in the input list and its display name (only a separator
\* or section properties may lie between the two).
FirstOf(body, d) ==
    Min({i \in 1..Len(body) : FromSource(body[i]) /\ body[i].doc = d})

C10_EveryDocumentHasHeader ==
    (pc = "done" /\ options.number_documents) =>
        \A d \in 1..N :
            (Merged(d) /\ RealContent(d)) =>
                \E h \in 1..(FirstOf(output, d) - 1) :
                    /\ output[h].role = "header"
                    /\ output[h].pos = d
                    /\ output[h].name = documents[d].name
                    /\ \A k \in (h + 1)..(FirstOf(output, d) - 1) :
                         \/ output[k].role = "separator"
                         \/ output[k].tag = "sectPr"

\* The content of the documents is preserved whenever no append raised.
ContentPreservedWithoutAppendFailure ==
    (pc = "done" /\ AllLoad /\ appendSwallowed = {})
        => Origins(output) = InputContent(documents, 1)

-----------------------------------------------------------------------------
(* C11 .. C18                                                              *)

\* C11: after merge_documents returns with stop_on_error off, total_docs
\* is the number of input documents that are in the output: it leaves out
\* the documents that failed to load and those skipped for having no real
\* content.
C11_TotalDocsCountsMerged ==
    (pc = "done" /\ ~options.stop_on_error) =>
        stats.total_docs = Cardinality({d \in 1..N : Merged(d)})

\* C13: analyze() never raises; after it the descriptor is marked analyzed
\* and holds either is_valid = false with an error message, or the counts
\* with pages_estimate = max(1, paragraphs // 50); every later call leaves
\* every field as it is.
DescriptorSettled(info) ==
    /\ ~info.raised
    /\ info.analyzed =>
         \/ ~info.is_valid /\ info.error_message # "None"
         \/ /\ info.is_valid
            /\ info.error_message = "None"
            /\ info.pages_estimate >= 1
            /\ info.paragraphs < 100 => info.pages_estimate = 1
            /\ info.paragraphs >= 100 =>
                 /\ 50 * info.pages_estimate <= info.paragraphs
                 /\ info.paragraphs < 50 * (info.pages_estimate + 1)
    /\ ~info.analyzed => info = NewDocumentInfo

C13_AnalyzeSettlesOnce ==
    /\ [](DescriptorSettled(docInfo))
    /\ [][docInfo.analyzed' /\ (docInfo.analyzed => docInfo' = docInfo)]_vars

\* An analysed valid descriptor of a document of at least 100 paragraphs.
C13_Witness ==
    docInfo.analyzed /\ docInfo.is_valid /\ docInfo.paragraphs >= 100

\* The document handed to TrimDocument or CopyElements, and the positions
\* of its elements that are still in the result.
UnitSource == documents[1].body
Kept == {output[i].pos : i \in 1..Len(output)}

\* C12: _clean_empty_paragraphs_at_end removes no paragraph that has a run
\* with an explicit page break or a run with bold, italic or underline and
\* no text; whatever it removes is a paragraph with empty trimmed text and
\* no such run.
C12_TrimSparesFormatting ==
    lastOp = "trim" =>
        \A i \in 1..Len(UnitSource) :
            i \notin Kept =>
                /\ IsPara(UnitSource[i])
                /\ ~UnitSource[i].text
                /\ ~UnitSource[i].brk
                /\ ~UnitSource[i].fmt

\* The trimmer removed a blank paragraph and stopped at a last paragraph
\* that has a formatted run and no text.
C12_Witness ==
    /\ lastOp = "trim"
    /\ Len(output) < Len(UnitSource)
    /\ ParaIdx(output) # {}
    /\ LET p == output[Max(ParaIdx(output))] IN p.fmt /\ ~p.text

IsPrefix(a, b) == Len(a) <= Len(b) /\ \A i \in 1..Len(a) : a[i] = b[i]

C18_TrimRemovesOnlyTrailing ==
    lastOp = "trim" =>
        /\ IsPrefix(Blocks(output), Blocks(UnitSource))
        /\ \A i \in 1..Len(UnitSource) :
             (~IsPara(UnitSource[i]) /\ ~IsTable(UnitSource[i])) => i \in Kept

\* C14: every progress report carries total_count = N and a current_index
\* that is at most N and at most the number of documents whose load and
\* append were completed or skipped when the report is made; the indices
\* reported are strictly increasing, and N is reported only when every
\* document has been processed.
C14_ProgressFollowsProcessing ==
    /\ \A k \in 1..Len(progress) :
         /\ progress[k].total = N
         /\ progress[k].current <= N
         /\ progress[k].current <= progress[k].processed
         /\ progress[k].current = N => progress[k].processed = N
    /\ \A j, k \in 1..Len(progress) :
         j < k => progress[j].current < progress[k].current

\* A merge of three documents has returned after a report for each.
C14_Witness ==
    /\ pc = "done"
    /\ N = 3
    /\ Len(progress) = 4
    /\ progress[3].current = 2

\* C16: when _append_document runs with add_page_break on a master with
\* real content, it inserts one page break for the document unless the
\* last paragraph or table of the trimmed master is a paragraph with an
\* explicit page break, in which case it inserts none.
EndsInBreak(body) ==
    LET b == Blocks(body)
    IN  Len(b) > 0 /\ IsPara(b[Len(b)]) /\ b[Len(b)].brk

BreaksFor(body, k) ==
    {i \in 1..Len(body) : body[i].role = "page_break" /\ body[i].pos = k}

C16_BreakUnlessMasterEndsInBreak ==
    [][ ( /\ pc = "loop"
          /\ idx <= N
          /\ options.add_page_break
          /\ documents[idx].valid
          /\ HasRealContent(documents[idx].body)
          /\ HasRealContent(master)
          /\ ~GetLastMeaningfulRaises(CleanEmptyParagraphsAtEnd(master)) )
        => Cardinality(BreaksFor(master', idx))
             = IF EndsInBreak(CleanEmptyParagraphsAtEnd(master))
               THEN 0 ELSE 1 ]_vars

\* C17: the page break, header and separator inserted for document k come
\* after every paragraph and table of documents 1..k-1, before every
\* element copied from document k, and in the order page break, header,
\* separator.
InsertedFor(body, k) ==
    {i \in 1..Len(body) :
        /\ body[i].role \in {"page_break", "header", "separator"}
        /\ body[i].pos = k}

RoleRank(role) ==
    IF role = "page_break" THEN 1 ELSE IF role = "header" THEN 2 ELSE 3

C17_InsertedBetweenDocuments ==
    \A k \in 2..N :
        \A i \in InsertedFor(master, k) :
            /\ \A j \in 1..Len(master) :
                 ( /\ FromSource(master[j])
                   /\ master[j].doc < k
                   /\ IsPara(master[j]) \/ IsTable(master[j]) ) => j < i
            /\ \A j \in 1..Len(master) :
                 (FromSource(master[j]) /\ master[j].doc = k) => i < j
            /\ \A h \in InsertedFor(master, k) :
                 RoleRank(master[h].role) < RoleRank(master[i].role) => h < i

====
